---------------------------- MODULE Spec2Model ----------------------------
(***************************************************************************)
(* Model of the log-event correlation engine of reth-proof-metrics:        *)
(*   block-metrics.py  (comparison server: Correlator, Run Splitter,       *)
(*                      Log-Window Selector, common-block set)             *)
(*   proof-metrics.py  (time-series server: Boundary Reconstructor,        *)
(*                      find_block_for_timestamp)                          *)
(*                                                                         *)
(* A log file is a sequence of lines.  A line is a record                  *)
(*   [kind, ts, number]                                                    *)
(* and the payload of a line (hash, elapsed, root_elapsed, total_time) is  *)
(* identified with the line's position in the file, so that every line     *)
(* carries a payload of its own and "which event was attached" is visible. *)
(* Timestamps are whole seconds.  The logs print them in one fixed-width   *)
(* ISO-8601 format, for which the order of the strings (used by the        *)
(* sorts) and the order of the parsed datetimes (used by the windows) are  *)
(* the same order, the order of the integers here.                         *)
(***************************************************************************)
EXTENDS Integers, Sequences, FiniteSets, TLC

VARIABLES
    log_file_1,              \* contents of the first log file
    log_file_2,              \* contents of the second log file, or NoFile
    single_file,             \* the mode start_server hands to every handler
    block_metadata_cache_1,  \* fields of the handler serving the request
    block_metadata_cache_2,
    block_numbers_cache,
    samples,                 \* the counter samples of the time-series log
    block_boundaries_cache,  \* field of the LogGraphHandler serving the request
    scans,                   \* times a request derived the cached artifacts from the file
    served,                  \* requests served so far
    pc,                      \* position of the process
    op,                      \* the operation last applied, with its arguments
    ret                      \* what it returned

vars == <<log_file_1, log_file_2, single_file, block_metadata_cache_1,
          block_metadata_cache_2, block_numbers_cache, samples,
          block_boundaries_cache, scans, served, pc, op, ret>>

-----------------------------------------------------------------------------
(* Bounds of the model.                                                    *)

MaxLines == 3          \* lines of a log file given to the correlator
MaxLogLines == 3       \* lines of a log file given to the log-window selector
MaxServerLines == 2    \* lines of each log file given to the comparison server
MaxSamples == 3        \* counter samples of a time-series log
MaxRequests == 2       \* requests served by one server process

(* Block numbers are the decimal strings the patterns capture (\d+).        *)
BlockNums == {<<9>>, <<1, 0>>}
Times == {0, 5, 10, 11}
LineTimes == {0, 2, 7}
(* Boundary instants given to the log-window selector, in half seconds.     *)
Boundaries == {2, 4, 7, 9}

(* Python's None, and the absence of a key from a dict.                     *)
None == 0
(* float('inf') as the initial min_diff.                                    *)
Infinity == -1

Abs(x) == IF x < 0 THEN -x ELSE x

-----------------------------------------------------------------------------
(* Log lines.                                                              *)

BlockAdded(n, t) == [kind |-> "BlockAdded", ts |-> t, number |-> n]
StateRootCalculated(n, t) == [kind |-> "StateRootCalculated", ts |-> t, number |-> n]
(* A proof-summary line carries no block number.                            *)
NoNumber == <<>>
ProofsProcessed(t) == [kind |-> "ProofsProcessed", ts |-> t, number |-> NoNumber]

(* In place of a file's lines: the path None (no second file), and the      *)
(* first file's path given a second time.                                   *)
NoFile == <<[kind |-> "None", ts |-> 0, number |-> NoNumber]>>
SameFile == <<[kind |-> "log_file_1", ts |-> 0, number |-> NoNumber]>>

LinesOver(nums, times) ==
    {BlockAdded(n, t) : n \in nums, t \in times}
    \cup {StateRootCalculated(n, t) : n \in nums, t \in times}
    \cup {ProofsProcessed(t) : t \in times}

FilesOver(lines, maxlen) == UNION {[1..n -> lines] : n \in 0..maxlen}

-----------------------------------------------------------------------------
(* Python dicts keep insertion order: a dict is a sequence of [key, val]   *)
(* with distinct keys; assigning to a present key keeps its position.      *)

DictHas(d, k) == \E i \in 1..Len(d) : d[i].key = k
DictIdx(d, k) == CHOOSE i \in 1..Len(d) : d[i].key = k
DictGet(d, k) == d[DictIdx(d, k)].val
DictSet(d, k, v) ==
    IF DictHas(d, k) THEN [d EXCEPT ![DictIdx(d, k)].val = v]
    ELSE Append(d, [key |-> k, val |-> v])

(* sorted(..., key=...) and list.sort(key=...) are stable: an element goes  *)
(* after every element whose key is not greater.  Elements carry .k         *)
RECURSIVE InsertByKey(_, _)
InsertByKey(sorted, x) ==
    IF sorted = <<>> THEN <<x>>
    ELSE IF sorted[Len(sorted)].k <= x.k THEN Append(sorted, x)
    ELSE Append(InsertByKey(SubSeq(sorted, 1, Len(sorted) - 1), x),
                sorted[Len(sorted)])

RECURSIVE SortByKey(_)
SortByKey(s) ==
    IF s = <<>> THEN <<>>
    ELSE InsertByKey(SortByKey(SubSeq(s, 1, Len(s) - 1)), s[Len(s)])

-----------------------------------------------------------------------------
(* block-metrics.py: extract_block_metadata (the Correlator).              *)

(* lines 1007-1022: one entry per BlockAdded line, grouped by block number  *)
(* in a dict (block numbers in order of first appearance, entries in file   *)
(* order).  root_elapsed and total_time are keys added later: None = absent.*)
NewEntry(file, i) ==
    [timestamp    |-> file[i].ts,
     block_hash   |-> i,
     elapsed_time |-> i,
     block_number |-> file[i].number,
     root_elapsed |-> None,
     total_time   |-> None]

RECURSIVE CollectBlocks(_, _, _)
CollectBlocks(file, i, blocks_data) ==
    IF i > Len(file) THEN blocks_data
    ELSE IF file[i].kind = "BlockAdded"
    THEN LET n == file[i].number
             old == IF DictHas(blocks_data, n) THEN DictGet(blocks_data, n) ELSE <<>>
         IN  CollectBlocks(file, i + 1,
                           DictSet(blocks_data, n, Append(old, NewEntry(file, i))))
    ELSE CollectBlocks(file, i + 1, blocks_data)

(* The comparison with <= in place of <, which keeps the last of several   *)
(* entries at the same distance.                                            *)
CloserOrEqual(diff, min_diff) == min_diff = Infinity \/ diff <= min_diff

(* lines 1033-1043: the entry closest to timestamp t; `diff < min_diff`     *)
(* keeps the first of several entries at the same distance.                 *)
Closer(diff, min_diff) == min_diff = Infinity \/ diff < min_diff

RECURSIVE ClosestEntry(_, _, _, _, _)
ClosestEntry(entries, k, t, min_diff, closest_entry) ==
    IF k > Len(entries) THEN closest_entry
    ELSE LET diff == Abs(t - entries[k].timestamp)
         IN  IF Closer(diff, min_diff)
             THEN ClosestEntry(entries, k + 1, t, diff, k)
             ELSE ClosestEntry(entries, k + 1, t, min_diff, closest_entry)

(* lines 1024-1046: every StateRootCalculated line, in file order, writes   *)
(* its root_elapsed into the closest entry of its block number.             *)
RECURSIVE AddRootTimes(_, _, _)
AddRootTimes(file, i, blocks_data) ==
    IF i > Len(file) THEN blocks_data
    ELSE IF file[i].kind = "StateRootCalculated" /\ DictHas(blocks_data, file[i].number)
    THEN LET n == file[i].number
             entries == DictGet(blocks_data, n)
             c == ClosestEntry(entries, 1, file[i].ts, Infinity, None)
         IN  IF c # None
             THEN AddRootTimes(file, i + 1,
                      DictSet(blocks_data, n, [entries EXCEPT ![c].root_elapsed = i]))
             ELSE AddRootTimes(file, i + 1, blocks_data)
    ELSE AddRootTimes(file, i + 1, blocks_data)

(* lines 1048-1056: the (timestamp, total_time) pairs, sorted by timestamp. *)
RECURSIVE CollectProofTimes(_, _)
CollectProofTimes(file, i) ==
    IF i > Len(file) THEN <<>>
    ELSE IF file[i].kind = "ProofsProcessed"
    THEN <<[k |-> file[i].ts, total_time |-> i]>> \o CollectProofTimes(file, i + 1)
    ELSE CollectProofTimes(file, i + 1)

ProofTimes(file) == SortByKey(CollectProofTimes(file, 1))

(* lines 1064-1071: the first proof time, in sorted order, that lies 0 to   *)
(* ProofWindow seconds after the entry.                                     *)
ProofWindow == 10

(* The first proof time of the file, whatever its distance.                *)
FirstProofAnywhere(proof_times, j, entry_time) ==
    IF proof_times = <<>> THEN None ELSE proof_times[1].total_time

RECURSIVE FirstProofAfter(_, _, _)
FirstProofAfter(proof_times, j, entry_time) ==
    IF j > Len(proof_times) THEN None
    ELSE LET time_diff == proof_times[j].k - entry_time
         IN  IF 0 <= time_diff /\ time_diff <= ProofWindow
             THEN proof_times[j].total_time
             ELSE FirstProofAfter(proof_times, j + 1, entry_time)

(* An enrichment that also overwrites the entry's elapsed_time.             *)
AddProofTimeOverElapsed(proof_times, entry) ==
    LET t == FirstProofAfter(proof_times, 1, entry.timestamp)
    IN  IF t # None THEN [entry EXCEPT !.total_time = t, !.elapsed_time = t] ELSE entry

(* lines 1064-1071: entry['total_time'] = total_time on the entry itself.   *)
AddProofTime(proof_times, entry) ==
    LET t == FirstProofAfter(proof_times, 1, entry.timestamp)
    IN  IF t # None THEN [entry EXCEPT !.total_time = t] ELSE entry

(* Only the first entry of a block number is given a proof time.            *)
AddProofTimesOncePerBlock(proof_times, blocks_data) ==
    [b \in 1..Len(blocks_data) |->
        [key |-> blocks_data[b].key,
         val |-> [e \in 1..Len(blocks_data[b].val) |->
                     IF e = 1 THEN AddProofTime(proof_times, blocks_data[b].val[e])
                     ELSE blocks_data[b].val[e]]]]

(* lines 1058-1071: every entry of every block number.                      *)
AddProofTimes(proof_times, blocks_data) ==
    [b \in 1..Len(blocks_data) |->
        [key |-> blocks_data[b].key,
         val |-> [e \in 1..Len(blocks_data[b].val) |->
                     AddProofTime(proof_times, blocks_data[b].val[e])]]]

(* The entries of blocks_data in iteration order.                           *)
RECURSIVE AllEntries(_, _)
AllEntries(blocks_data, b) ==
    IF b > Len(blocks_data) THEN <<>>
    ELSE blocks_data[b].val \o AllEntries(blocks_data, b + 1)

(* Dict keys of the BlockRecord maps: the timestamp string, and the         *)
(* timestamp string with "_dup" appended (line 986).                        *)
Key(t) == <<t, "">>
DupKey(t) == <<t, "_dup">>

(* lines 1073-1076: block_metadata[entry['timestamp']] = entry              *)
RECURSIVE ByTimestamp(_, _, _)
ByTimestamp(entries, k, block_metadata) ==
    IF k > Len(entries) THEN block_metadata
    ELSE ByTimestamp(entries, k + 1,
                     DictSet(block_metadata, Key(entries[k].timestamp), entries[k]))

BlocksData(file) ==
    AddProofTimes(ProofTimes(file),
                  AddRootTimes(file, 1, CollectBlocks(file, 1, <<>>)))

extract_block_metadata(file) == ByTimestamp(AllEntries(BlocksData(file), 1), 1, <<>>)

-----------------------------------------------------------------------------
(* block-metrics.py: extract_block_metadata_from_single_file (Run Splitter)*)

(* lines 953-961: the (timestamp, metadata) pairs of every block number.    *)
RECURSIVE CountOccurrences(_, _, _)
CountOccurrences(all_metadata, i, block_occurrences) ==
    IF i > Len(all_metadata) THEN block_occurrences
    ELSE LET metadata == all_metadata[i].val
             block_num == metadata.block_number
             old == IF DictHas(block_occurrences, block_num)
                    THEN DictGet(block_occurrences, block_num) ELSE <<>>
         IN  IF block_num # NoNumber
             THEN CountOccurrences(all_metadata, i + 1,
                      DictSet(block_occurrences, block_num,
                              Append(old, [k |-> all_metadata[i].key[1],
                                           metadata |-> metadata])))
             ELSE CountOccurrences(all_metadata, i + 1, block_occurrences)

(* The occurrences as collected, in order of the timestamp-keyed map.      *)
SortOccurrencesFileOrder(occurrences) == occurrences
(* line 970: occurrences.sort(key=lambda x: x[0])                           *)
SortOccurrences(occurrences) == SortByKey(occurrences)

(* The split with the last occurrence, not the second, given to Run 2.     *)
RECURSIVE SplitRunsFirstAndLast(_, _, _, _)
SplitRunsFirstAndLast(block_occurrences, b, run1_metadata, run2_metadata) ==
    IF b > Len(block_occurrences) THEN <<run1_metadata, run2_metadata>>
    ELSE LET occurrences == SortOccurrences(block_occurrences[b].val)
             last == occurrences[Len(occurrences)]
         IN  IF Len(occurrences) >= 2
             THEN SplitRunsFirstAndLast(block_occurrences, b + 1,
                      DictSet(run1_metadata, Key(occurrences[1].k), occurrences[1].metadata),
                      DictSet(run2_metadata, Key(last.k), last.metadata))
             ELSE IF Len(occurrences) = 1
             THEN SplitRunsFirstAndLast(block_occurrences, b + 1,
                      DictSet(run1_metadata, Key(occurrences[1].k), occurrences[1].metadata),
                      DictSet(run2_metadata, DupKey(occurrences[1].k), occurrences[1].metadata))
             ELSE SplitRunsFirstAndLast(block_occurrences, b + 1, run1_metadata, run2_metadata)

(* The split that leaves a block number seen once out of Run 2.            *)
RECURSIVE SplitRunsRepeatedOnly(_, _, _, _)
SplitRunsRepeatedOnly(block_occurrences, b, run1_metadata, run2_metadata) ==
    IF b > Len(block_occurrences) THEN <<run1_metadata, run2_metadata>>
    ELSE LET occurrences == SortOccurrences(block_occurrences[b].val)
         IN  IF Len(occurrences) >= 2
             THEN SplitRunsRepeatedOnly(block_occurrences, b + 1,
                      DictSet(run1_metadata, Key(occurrences[1].k), occurrences[1].metadata),
                      DictSet(run2_metadata, Key(occurrences[2].k), occurrences[2].metadata))
             ELSE IF Len(occurrences) = 1
             THEN SplitRunsRepeatedOnly(block_occurrences, b + 1,
                      DictSet(run1_metadata, Key(occurrences[1].k), occurrences[1].metadata),
                      run2_metadata)
             ELSE SplitRunsRepeatedOnly(block_occurrences, b + 1, run1_metadata, run2_metadata)

(* lines 967-986: the two runs, as a pair of dicts.                         *)
RECURSIVE SplitRuns(_, _, _, _)
SplitRuns(block_occurrences, b, run1_metadata, run2_metadata) ==
    IF b > Len(block_occurrences) THEN <<run1_metadata, run2_metadata>>
    ELSE LET occurrences == SortOccurrences(block_occurrences[b].val)
         IN  IF Len(occurrences) >= 2
             THEN SplitRuns(block_occurrences, b + 1,
                      DictSet(run1_metadata, Key(occurrences[1].k), occurrences[1].metadata),
                      DictSet(run2_metadata, Key(occurrences[2].k), occurrences[2].metadata))
             ELSE IF Len(occurrences) = 1
             THEN SplitRuns(block_occurrences, b + 1,
                      DictSet(run1_metadata, Key(occurrences[1].k), occurrences[1].metadata),
                      DictSet(run2_metadata, DupKey(occurrences[1].k), occurrences[1].metadata))
             ELSE SplitRuns(block_occurrences, b + 1, run1_metadata, run2_metadata)

extract_block_metadata_from_single_file(file) ==
    SplitRuns(CountOccurrences(extract_block_metadata(file), 1, <<>>), 1, <<>>, <<>>)

-----------------------------------------------------------------------------
(* block-metrics.py: extract_log_lines_for_block (Log-Window Selector).    *)
(* A line is returned as its position in the file.  boundary_time is None  *)
(* (NoBoundary) or a datetime, which may lie half-way between two          *)
(* timestamps: <<b>> stands for the instant b/2.                           *)

NoBoundary == <<>>

(* lines 1108-1133: the lines matching one pattern, sorted by timestamp.    *)
RECURSIVE CollectLines(_, _, _, _)
CollectLines(file, i, kind, block_number) ==
    IF i > Len(file) THEN <<>>
    ELSE IF file[i].kind = kind
            /\ (kind = "ProofsProcessed" \/ file[i].number = block_number)
    THEN <<[k |-> file[i].ts, line |-> i]>> \o CollectLines(file, i + 1, kind, block_number)
    ELSE CollectLines(file, i + 1, kind, block_number)

SortedLines(file, kind, block_number) ==
    SortByKey(CollectLines(file, 1, kind, block_number))

(* A selection that puts a line stamped exactly at the boundary in run 1.   *)
RECURSIVE SelectRunAtBoundaryBefore(_, _, _, _)
SelectRunAtBoundaryBefore(lines, j, boundary_time, before) ==
    IF j > Len(lines) THEN <<>>
    ELSE IF (2 * lines[j].k <= boundary_time[1]) = before
    THEN <<lines[j]>> \o SelectRunAtBoundaryBefore(lines, j + 1, boundary_time, before)
    ELSE SelectRunAtBoundaryBefore(lines, j + 1, boundary_time, before)

(* lines 1141-1146: the block-added lines before / not before the boundary. *)
RECURSIVE SelectRun(_, _, _, _)
SelectRun(lines, j, boundary_time, before) ==
    IF j > Len(lines) THEN <<>>
    ELSE IF (2 * lines[j].k < boundary_time[1]) = before
    THEN <<lines[j]>> \o SelectRun(lines, j + 1, boundary_time, before)
    ELSE SelectRun(lines, j + 1, boundary_time, before)

(* lines 1135-1165: the chosen block-added line, <<>> when there is none.   *)
ChosenBlockAdded(all_block_added_lines, is_first_run, boundary_time) ==
    IF Len(all_block_added_lines) >= 2 /\ boundary_time # NoBoundary
    THEN LET selected_lines ==
                 SelectRun(all_block_added_lines, 1, boundary_time, is_first_run)
         IN  IF selected_lines # <<>> THEN <<selected_lines[1]>> ELSE <<>>
    ELSE IF all_block_added_lines # <<>>
    THEN LET block_index ==
                 IF is_first_run \/ Len(all_block_added_lines) = 1 THEN 0 ELSE 1
         IN  IF block_index < Len(all_block_added_lines)
             THEN <<all_block_added_lines[block_index + 1]>> ELSE <<>>
    ELSE <<>>

(* lines 1170-1180: the first proof-summary line 0 to 2 seconds before.     *)
ProofLineWindow == 2

RECURSIVE FindProofsLine(_, _, _)
FindProofsLine(lines, j, block_added_dt) ==
    IF j > Len(lines) THEN None
    ELSE LET time_diff == block_added_dt - lines[j].k
         IN  IF 0 <= time_diff /\ time_diff <= ProofLineWindow
             THEN lines[j].line
             ELSE FindProofsLine(lines, j + 1, block_added_dt)

(* lines 1182-1192: the first root line within 5 seconds, either side.      *)
RootLineWindow == 5

(* The first root line of the block, whatever its distance.                *)
FindRootLineAnyDistance(lines, j, block_added_dt) ==
    IF lines = <<>> THEN None ELSE lines[1].line

RECURSIVE FindRootLine(_, _, _)
FindRootLine(lines, j, block_added_dt) ==
    IF j > Len(lines) THEN None
    ELSE LET time_diff == Abs(block_added_dt - lines[j].k)
         IN  IF time_diff <= RootLineWindow
             THEN lines[j].line
             ELSE FindRootLine(lines, j + 1, block_added_dt)

(* The three lines with the root line put first.                           *)
ResultLogsRootFirst(proofs_processed_line, root_calculated_line, block_added_line) ==
    (IF root_calculated_line # None THEN <<root_calculated_line>> ELSE <<>>)
    \o (IF proofs_processed_line # None THEN <<proofs_processed_line>> ELSE <<>>)
    \o <<block_added_line>>

(* lines 1194-1208: proof line, then root line, then block-added line.      *)
ResultLogs(proofs_processed_line, root_calculated_line, block_added_line) ==
    (IF proofs_processed_line # None THEN <<proofs_processed_line>> ELSE <<>>)
    \o (IF root_calculated_line # None THEN <<root_calculated_line>> ELSE <<>>)
    \o <<block_added_line>>

extract_log_lines_for_block(file, block_number, is_first_run, boundary_time) ==
    LET chosen == ChosenBlockAdded(SortedLines(file, "BlockAdded", block_number),
                                   is_first_run, boundary_time)
    IN  IF chosen = <<>> THEN <<>>
        ELSE ResultLogs(
                 FindProofsLine(SortedLines(file, "ProofsProcessed", block_number),
                                1, chosen[1].k),
                 FindRootLine(SortedLines(file, "StateRootCalculated", block_number),
                              1, chosen[1].k),
                 chosen[1].line)

-----------------------------------------------------------------------------
(* block-metrics.py: LogComparisonHandler.get_common_block_numbers.        *)
(* A cache field holds None (NotBuilt) or a value x (Built(x)).             *)

NotBuilt == <<>>
Built(x) == <<x>>

(* int(x) of a decimal string.                                              *)
RECURSIVE ToInt(_)
ToInt(x) == IF x = <<>> THEN 0 ELSE 10 * ToInt(SubSeq(x, 1, Len(x) - 1)) + x[Len(x)]

(* The order of the strings themselves, which sorted() uses without a key.  *)
RECURSIVE StrLess(_, _)
StrLess(x, y) ==
    IF y = <<>> THEN FALSE
    ELSE IF x = <<>> THEN TRUE
    ELSE IF x[1] # y[1] THEN x[1] < y[1]
    ELSE StrLess(Tail(x), Tail(y))

(* lines 111-120: the block numbers of a run.                               *)
BlockNumbersOf(cache) ==
    {cache[i].val.block_number : i \in {j \in 1..Len(cache) :
                                           cache[j].val.block_number # NoNumber}}

(* sorted(common_blocks), without the key.                                 *)
RECURSIVE SortedLexicographic(_)
SortedLexicographic(blocks) ==
    IF blocks = {} THEN <<>>
    ELSE LET m == CHOOSE x \in blocks : \A y \in blocks : x = y \/ StrLess(x, y)
         IN  <<m>> \o SortedLexicographic(blocks \ {m})

(* line 126: sorted(common_blocks, key=lambda x: int(x))                    *)
RECURSIVE SortedNumerically(_)
SortedNumerically(blocks) ==
    IF blocks = {} THEN <<>>
    ELSE LET m == CHOOSE x \in blocks : \A y \in blocks : ToInt(x) <= ToInt(y)
         IN  <<m>> \o SortedNumerically(blocks \ {m})

get_common_block_numbers(cache_1, cache_2) ==
    IF cache_1 = NotBuilt \/ cache_2 = NotBuilt THEN <<>>
    ELSE SortedNumerically(BlockNumbersOf(cache_1[1]) \cap BlockNumbersOf(cache_2[1]))

-----------------------------------------------------------------------------
(* proof-metrics.py: LogGraphHandler.calculate_block_boundaries and        *)
(* find_block_for_timestamp.  A sample is [ts, proofs_processed]; a        *)
(* BlockWindow is <<index, start, end>>.                                   *)

(* A reset at any drop of the counter.                                     *)
IsResetOnAnyDrop(prev, cur) == cur < prev \/ cur = 0
(* line 135: proofs_processed[i] < proofs_processed[i-1] * 0.5 or == 0      *)
IsReset(prev, cur) == 2 * cur < prev \/ cur = 0

(* The loop closing a window at the sample of the reset itself.            *)
RECURSIVE BoundaryLoopEndAtReset(_, _, _, _)
BoundaryLoopEndAtReset(smp, i, current_block_start, block_boundaries) ==
    IF i > Len(smp) THEN <<current_block_start, block_boundaries>>
    ELSE IF IsReset(smp[i - 1].proofs_processed, smp[i].proofs_processed)
    THEN BoundaryLoopEndAtReset(smp, i + 1, smp[i].ts,
             Append(block_boundaries,
                    <<Len(block_boundaries), current_block_start, smp[i].ts>>))
    ELSE BoundaryLoopEndAtReset(smp, i + 1, current_block_start, block_boundaries)

(* lines 133-141: the loop over the samples 2..n (Python's 1..n-1).         *)
RECURSIVE BoundaryLoop(_, _, _, _)
BoundaryLoop(smp, i, current_block_start, block_boundaries) ==
    IF i > Len(smp) THEN <<current_block_start, block_boundaries>>
    ELSE IF IsReset(smp[i - 1].proofs_processed, smp[i].proofs_processed)
    THEN BoundaryLoop(smp, i + 1, smp[i].ts,
             Append(block_boundaries,
                    <<Len(block_boundaries), current_block_start, smp[i - 1].ts>>))
    ELSE BoundaryLoop(smp, i + 1, current_block_start, block_boundaries)

(* lines 123-151 *)
calculate_block_boundaries(smp) ==
    IF smp = <<>> THEN <<>>
    ELSE LET loop == BoundaryLoop(smp, 2, smp[1].ts, <<>>)
             current_block_start == loop[1]
             block_boundaries == loop[2]
         IN  IF current_block_start # smp[Len(smp)].ts
             THEN Append(block_boundaries,
                         <<Len(block_boundaries), current_block_start, smp[Len(smp)].ts>>)
             ELSE block_boundaries

(* The first window holding the timestamp strictly inside.                 *)
RECURSIVE FindWindowExclusive(_, _, _)
FindWindowExclusive(block_boundaries, i, timestamp) ==
    IF i > Len(block_boundaries) THEN <<>>
    ELSE IF block_boundaries[i][2] < timestamp /\ timestamp < block_boundaries[i][3]
    THEN <<i - 1>>
    ELSE FindWindowExclusive(block_boundaries, i + 1, timestamp)

(* lines 110-117: str(i) of the first window holding the timestamp; the     *)
(* result is <<i>>, or <<>> for None.                                       *)
RECURSIVE FindWindow(_, _, _)
FindWindow(block_boundaries, i, timestamp) ==
    IF i > Len(block_boundaries) THEN <<>>
    ELSE IF block_boundaries[i][2] <= timestamp /\ timestamp <= block_boundaries[i][3]
    THEN <<i - 1>>
    ELSE FindWindow(block_boundaries, i + 1, timestamp)

-----------------------------------------------------------------------------
(* The state machines.                                                     *)

files == <<log_file_1, log_file_2>>
comparison_handler ==
    <<single_file, block_metadata_cache_1, block_metadata_cache_2, block_numbers_cache>>
graph_handler == <<samples, block_boundaries_cache>>
counters == <<scans, served>>

(* The files of the two scenarios the testable properties name.             *)
RootScenario ==
    <<BlockAdded(<<9>>, 0), StateRootCalculated(<<9>>, 2), StateRootCalculated(<<9>>, 50)>>
ProofScenario ==
    <<ProofsProcessed(1), BlockAdded(<<9>>, 3), ProofsProcessed(15)>>

CorrelatorFiles ==
    FilesOver(LinesOver(BlockNums, Times), MaxLines) \cup {RootScenario, ProofScenario}

NothingServed ==
    /\ single_file = FALSE
    /\ block_metadata_cache_1 = NotBuilt
    /\ block_metadata_cache_2 = NotBuilt
    /\ block_numbers_cache = NotBuilt
    /\ block_boundaries_cache = NotBuilt
    /\ scans = 0
    /\ served = 0
    /\ op = <<>>
    /\ ret = <<>>

(* The correlator and the run splitter applied to one log file.             *)
InitCorrelator ==
    /\ log_file_1 \in CorrelatorFiles
    /\ log_file_2 = NoFile
    /\ samples = <<>>
    /\ NothingServed
    /\ pc = "input"

Correlate ==
    /\ pc = "input"
    /\ pc' = "done"
    /\ op' = <<"extract_block_metadata">>
    /\ ret' = extract_block_metadata(log_file_1)
    /\ UNCHANGED <<files, comparison_handler, graph_handler, counters>>

SplitSingleFile ==
    /\ pc = "input"
    /\ pc' = "done"
    /\ op' = <<"extract_block_metadata_from_single_file">>
    /\ ret' = extract_block_metadata_from_single_file(log_file_1)
    /\ UNCHANGED <<files, comparison_handler, graph_handler, counters>>

NextCorrelator == Correlate \/ SplitSingleFile

SpecCorrelator == InitCorrelator /\ [][NextCorrelator]_vars

Correlated == pc = "done" /\ op = <<"extract_block_metadata">>
Split == pc = "done" /\ op = <<"extract_block_metadata_from_single_file">>

-----------------------------------------------------------------------------
(* Properties of the correlator and of the run splitter.                   *)

LinesOfKind(file, kind, n) ==
    {i \in 1..Len(file) : file[i].kind = kind /\ file[i].number = n}

RecordsOf(block_metadata, n) ==
    {block_metadata[i].val : i \in {j \in 1..Len(block_metadata) :
                                       block_metadata[j].val.block_number = n}}

(* C1: when a file holds one BlockAdded line of block N, at T, and two      *)
(* StateRootCalculated lines of block N, at T+2 and at T+50, the record of  *)
(* block N carries the root_elapsed of the line at T+2.                     *)
C1_NearestRootEventIsAttached ==
    Correlated =>
        \A b, near, far \in 1..Len(log_file_1) :
            LET f == log_file_1
                n == f[b].number
            IN  ( /\ LinesOfKind(f, "BlockAdded", n) = {b}
                  /\ LinesOfKind(f, "StateRootCalculated", n) = {near, far}
                  /\ f[near].ts = f[b].ts + 2
                  /\ f[far].ts = f[b].ts + 50 )
                => \A r \in RecordsOf(ret, n) : r.root_elapsed = near

(* C2: when a ProofsProcessed line at T+1 is followed by the BlockAdded     *)
(* line of a block at T+3, and every other ProofsProcessed line lies more   *)
(* than 10 seconds after the BlockAdded line, the record of that block      *)
(* carries the total_time of the line at T+1; and no record carries the     *)
(* total_time of a line more than 10 seconds after its anchor.              *)
C2_ProofBeforeBlockIsAttached ==
    Correlated =>
        LET f == log_file_1
            proofs == LinesOfKind(f, "ProofsProcessed", NoNumber)
        IN  /\ \A p, b \in 1..Len(f) :
                   ( /\ p < b
                     /\ p \in proofs
                     /\ f[b].kind = "BlockAdded"
                     /\ f[b].ts = f[p].ts + 2
                     /\ \A q \in proofs \ {p} : f[q].ts > f[b].ts + ProofWindow )
                   => \A i \in 1..Len(ret) :
                          ret[i].val.block_hash = b => ret[i].val.total_time = p
            /\ \A i \in 1..Len(ret) :
                   ret[i].val.total_time # None
                   => f[ret[i].val.total_time].ts <= ret[i].val.timestamp + ProofWindow

(* C3: of the BlockRecords of one file, a block number with exactly two     *)
(* records, at T1 < T2, has its T1 record in Run 1 only and its T2 record   *)
(* in Run 2 only; a block number with exactly one record has that record,   *)
(* with the same field values, in both runs.                                *)
HasRecord(run, r) == \E j \in 1..Len(run) : run[j].val = r

C3_RunSplit ==
    Split =>
        LET all_metadata == extract_block_metadata(log_file_1)
            run1 == ret[1]
            run2 == ret[2]
        IN  \A n \in BlockNumbersOf(all_metadata) :
                LET occ == RecordsOf(all_metadata, n)
                IN  /\ Cardinality(occ) = 2 =>
                           \A r1, r2 \in occ :
                               r1.timestamp < r2.timestamp =>
                                   /\ HasRecord(run1, r1) /\ ~HasRecord(run1, r2)
                                   /\ HasRecord(run2, r2) /\ ~HasRecord(run2, r1)
                    /\ Cardinality(occ) = 1 =>
                           /\ RecordsOf(run1, n) = occ
                           /\ RecordsOf(run2, n) = occ

(* A file where block 9 is added twice, the later occurrence first in the   *)
(* file, and block 10 once, has been split.                                 *)
C3_Witness ==
    /\ Split
    /\ \E i, j, k \in 1..Len(log_file_1) :
           /\ i < j
           /\ log_file_1[i] = BlockAdded(<<9>>, 5)
           /\ log_file_1[j] = BlockAdded(<<9>>, 0)
           /\ log_file_1[k] = BlockAdded(<<1, 0>>, 10)
    /\ Len(ret[1]) = 2
    /\ Len(ret[2]) = 2

-----------------------------------------------------------------------------
(* The log-window selector applied to one log file.                        *)

SelectorFiles == FilesOver(LinesOver(BlockNums, LineTimes), MaxLogLines)

InitSelector ==
    /\ log_file_1 \in SelectorFiles
    /\ log_file_2 = NoFile
    /\ samples = <<>>
    /\ NothingServed
    /\ pc = "input"

ExtractLogLines ==
    /\ pc = "input"
    /\ \E block_number \in BlockNums, is_first_run \in BOOLEAN,
          boundary_time \in {NoBoundary} \cup {<<b>> : b \in Boundaries} :
           /\ op' = <<"extract_log_lines_for_block", block_number, is_first_run,
                      boundary_time>>
           /\ ret' = extract_log_lines_for_block(log_file_1, block_number,
                                                 is_first_run, boundary_time)
    /\ pc' = "done"
    /\ UNCHANGED <<files, comparison_handler, graph_handler, counters>>

NextSelector == ExtractLogLines

SpecSelector == InitSelector /\ [][NextSelector]_vars

Selected == pc = "done" /\ op[1] = "extract_log_lines_for_block"

(* C8: the selector returns the empty list, or a block-added line of the    *)
(* target block preceded by at most one root-calculation line, itself       *)
(* preceded by at most one proof-summary line, in that order; and it        *)
(* returns the empty list when the file has no block-added line of the      *)
(* target block.                                                            *)
C8_SelectedLinesShape ==
    Selected =>
        LET f == log_file_1
            kinds == [i \in 1..Len(ret) |-> f[ret[i]].kind]
        IN  /\ \/ ret = <<>>
               \/ /\ kinds \in {<<"BlockAdded">>,
                                <<"ProofsProcessed", "BlockAdded">>,
                                <<"StateRootCalculated", "BlockAdded">>,
                                <<"ProofsProcessed", "StateRootCalculated", "BlockAdded">>}
                  /\ f[ret[Len(ret)]].number = op[2]
            /\ LinesOfKind(f, "BlockAdded", op[2]) = {} => ret = <<>>

(* All three lines are returned, from a file that stores the root line      *)
(* before the proof-summary line.                                           *)
C8_Witness ==
    /\ Selected
    /\ Len(ret) = 3
    /\ ret[2] < ret[1]

-----------------------------------------------------------------------------
(* block-metrics.py: the comparison server.                                *)
(* start_server gives HTTPServer a factory that constructs a new           *)
(* LogComparisonHandler for every request; __init__ sets the three cache   *)
(* fields to None and then handles the request.  The handler variables     *)
(* hold the fields of the handler of the request being served.             *)

ServerTimes == {0, 5}
ServerFiles ==
    FilesOver({BlockAdded(n, t) : n \in BlockNums, t \in ServerTimes}, MaxServerLines)

(* The runs of the common-block example: blocks 100, 101, 103 and blocks    *)
(* 100, 103, 104.                                                           *)
ExampleFile1 ==
    <<BlockAdded(<<1, 0, 0>>, 0), BlockAdded(<<1, 0, 3>>, 5), BlockAdded(<<1, 0, 1>>, 10)>>
ExampleFile2 ==
    <<BlockAdded(<<1, 0, 4>>, 0), BlockAdded(<<1, 0, 3>>, 5), BlockAdded(<<1, 0, 0>>, 10)>>

Init ==
    /\ \/ /\ log_file_1 \in ServerFiles
          /\ log_file_2 \in {NoFile, SameFile} \cup ServerFiles
       \/ /\ log_file_1 = ExampleFile1
          /\ log_file_2 = ExampleFile2
    /\ samples = <<>>
    /\ NothingServed
    /\ pc = "main"

(* lines 1210-1233: (single_file_mode, file_1, file_2)                      *)
HasDuplicateBlocks(all_metadata) ==
    \E i, j \in 1..Len(all_metadata) :
        /\ i # j
        /\ all_metadata[i].val.block_number = all_metadata[j].val.block_number

detect_single_or_dual_file(file_1, file_2) ==
    IF file_2 = NoFile \/ file_2 = SameFile
    THEN IF HasDuplicateBlocks(extract_block_metadata(file_1))
         THEN <<TRUE, file_1, NoFile>>
         ELSE <<FALSE, file_1, file_2>>
    ELSE <<FALSE, file_1, file_2>>

(* lines 1235-1259: start_server, up to serve_forever.                      *)
StartServer ==
    /\ pc = "main"
    /\ LET detected == detect_single_or_dual_file(log_file_1, log_file_2)
       IN  /\ single_file' = detected[1]
           /\ log_file_1' = detected[2]
           /\ log_file_2' = detected[3]
    /\ pc' = "serving"
    /\ UNCHANGED <<block_metadata_cache_1, block_metadata_cache_2, block_numbers_cache,
                   graph_handler, counters, op, ret>>

(* open() of the path a handler was given: the second path is None when     *)
(* one file was supplied, and open(None) raises.                            *)
Readable(file) == file # NoFile
Contents(file) == IF file = SameFile THEN log_file_1 ELSE file

(* lines 18-50: a request for / or /index.html.  The new handler's caches   *)
(* are None (lines 22-24), so line 41 finds no cache and the handler        *)
(* derives the runs and the common block numbers.  An exception leaves      *)
(* do_GET with what had been assigned.                                      *)
DoGET ==
    /\ pc = "serving"
    /\ served < MaxRequests
    /\ served' = served + 1
    /\ scans' = scans + 1
    /\ IF single_file
       THEN LET runs == extract_block_metadata_from_single_file(Contents(log_file_1))
            IN  /\ block_metadata_cache_1' = Built(runs[1])
                /\ block_metadata_cache_2' = Built(runs[2])
                /\ block_numbers_cache' =
                       Built(get_common_block_numbers(Built(runs[1]), Built(runs[2])))
                /\ ret' = <<"page">>
       ELSE /\ block_metadata_cache_1' = Built(extract_block_metadata(Contents(log_file_1)))
            /\ IF Readable(log_file_2)
               THEN /\ block_metadata_cache_2' =
                           Built(extract_block_metadata(Contents(log_file_2)))
                    /\ block_numbers_cache' =
                           Built(get_common_block_numbers(block_metadata_cache_1',
                                                          block_metadata_cache_2'))
                    /\ ret' = <<"page">>
               ELSE /\ block_metadata_cache_2' = NotBuilt
                    /\ block_numbers_cache' = NotBuilt
                    /\ ret' = <<"exception">>
    /\ op' = <<"GET /">>
    /\ UNCHANGED <<files, single_file, graph_handler, pc>>

(* lines 18-25, 67-103: a POST of /find_block.  The new handler's caches    *)
(* are None and the reply, the block number read off the posted line, does  *)
(* not touch them.                                                          *)
DoPOST ==
    /\ pc = "serving"
    /\ served < MaxRequests
    /\ served' = served + 1
    /\ block_metadata_cache_1' = NotBuilt
    /\ block_metadata_cache_2' = NotBuilt
    /\ block_numbers_cache' = NotBuilt
    /\ op' = <<"POST /find_block">>
    /\ ret' = <<"json">>
    /\ UNCHANGED <<files, single_file, graph_handler, scans, pc>>

Next == StartServer \/ DoGET \/ DoPOST

Spec == Init /\ [][Next]_vars

-----------------------------------------------------------------------------
(* block-metrics.py: LogComparisonHandler.get_block_data_from_logs, the    *)
(* block data a block page shows, read off the selected log lines.         *)

(* 'N/A', the placeholder of a field no line gave; a field a line gave is   *)
(* <<i>>, the payload of line i.                                            *)
NotAvailable == <<>>

(* line 293: 'Block added to canonical chain number={block_number}' in      *)
(* line, a substring test: the line's number starts with block_number.      *)
IsPrefix(p, x) == Len(p) <= Len(x) /\ SubSeq(x, 1, Len(p)) = p

(* lines 289-296: the timestamps of those lines, in file order.             *)
RECURSIVE AllBlockLogs(_, _, _)
AllBlockLogs(file, i, block_number) ==
    IF i > Len(file) THEN <<>>
    ELSE IF file[i].kind = "BlockAdded" /\ IsPrefix(block_number, file[i].number)
    THEN <<file[i].ts>> \o AllBlockLogs(file, i + 1, block_number)
    ELSE AllBlockLogs(file, i + 1, block_number)

(* lines 285-302: time1 + (time2 - time1) / 2, in half seconds.             *)
BoundaryTime(single, file, block_number) ==
    LET all_block_logs == AllBlockLogs(file, 1, block_number)
    IN  IF single /\ Len(all_block_logs) >= 2
        THEN <<all_block_logs[1] + all_block_logs[2]>>
        ELSE NoBoundary

(* lines 316-346: the fields the lines of logs give, the last line of a     *)
(* kind winning.  hash= is printed by the block-added line.                 *)
RECURSIVE ParseLogs(_, _, _, _)
ParseLogs(file, logs, j, block_data) ==
    IF j > Len(logs) THEN block_data
    ELSE LET i == logs[j]
             kind == file[i].kind
         IN  ParseLogs(file, logs, j + 1,
                 IF kind = "ProofsProcessed"
                 THEN [block_data EXCEPT !.processing_time = <<i>>]
                 ELSE IF kind = "BlockAdded"
                 THEN [block_data EXCEPT !.block_hash = <<i>>, !.elapsed_time = <<i>>]
                 ELSE IF kind = "StateRootCalculated"
                 THEN [block_data EXCEPT !.root_elapsed = <<i>>]
                 ELSE block_data)

(* lines 282-348: <<"exception">> when the file to read is None,            *)
(* <<"None">> when no line was selected, else the block data.               *)
get_block_data_from_logs(block_number, is_first_run) ==
    LET boundary_time == BoundaryTime(single_file, Contents(log_file_1), block_number)
        log_file == IF single_file \/ is_first_run THEN log_file_1 ELSE log_file_2
    IN  IF ~Readable(log_file) THEN <<"exception">>
        ELSE LET logs == extract_log_lines_for_block(Contents(log_file), block_number,
                                                     is_first_run, boundary_time)
             IN  IF logs = <<>> THEN <<"None">>
                 ELSE <<"block_data",
                        ParseLogs(Contents(log_file), logs, 1,
                                  [block_number    |-> block_number,
                                   block_hash      |-> NotAvailable,
                                   processing_time |-> NotAvailable,
                                   elapsed_time    |-> NotAvailable,
                                   root_elapsed    |-> NotAvailable])>>

(* The block numbers a page can be asked for.                               *)
QueryNums == BlockNums \cup {<<1>>}

(* A file in which block 10 is logged before block 1 is logged twice.       *)
PrefixScenario ==
    <<BlockAdded(<<1, 0>>, 0), BlockAdded(<<1>>, 5), BlockAdded(<<1>>, 10)>>

(* The correlator and get_block_data_from_logs applied to the files of a    *)
(* serving process, as detect_single_or_dual_file left them when            *)
(* start_server was given one file, one file twice, or two files.           *)
InitBlockData ==
    /\ \E file_1 \in CorrelatorFiles \cup {PrefixScenario},
          file_2 \in {NoFile, SameFile, RootScenario} :
           LET detected == detect_single_or_dual_file(file_1, file_2)
           IN  /\ single_file = detected[1]
               /\ log_file_1 = detected[2]
               /\ log_file_2 = detected[3]
    /\ samples = <<>>
    /\ block_metadata_cache_1 = NotBuilt
    /\ block_metadata_cache_2 = NotBuilt
    /\ block_numbers_cache = NotBuilt
    /\ block_boundaries_cache = NotBuilt
    /\ scans = 0
    /\ served = 0
    /\ op = <<>>
    /\ ret = <<>>
    /\ pc = "input"

GetBlockDataFromLogs ==
    /\ pc = "input"
    /\ \E block_number \in QueryNums, is_first_run \in BOOLEAN :
           /\ op' = <<"get_block_data_from_logs", block_number, is_first_run>>
           /\ ret' = get_block_data_from_logs(block_number, is_first_run)
    /\ pc' = "done"
    /\ UNCHANGED <<files, comparison_handler, graph_handler, counters>>

(* lines 357-371: the boundary recomputed for the lines shown, the          *)
(* midpoint between the first line of each run's lines taken without a     *)
(* boundary.                                                                *)
DisplayBoundary(file, block_number, data_1, data_2) ==
    IF single_file /\ data_1[1] = "block_data" /\ data_2[1] = "block_data"
    THEN LET run1_logs == extract_log_lines_for_block(file, block_number, TRUE, NoBoundary)
             run2_logs == extract_log_lines_for_block(file, block_number, FALSE, NoBoundary)
         IN  IF run1_logs # <<>> /\ run2_logs # <<>>
             THEN <<file[run1_logs[1]].ts + file[run2_logs[1]].ts>>
             ELSE NoBoundary
    ELSE NoBoundary

(* lines 350-408: <<"exception">> when a file to read is None, else the     *)
(* data of the two runs and the lines shown for them, under "error" when a  *)
(* run has no data.  The differences and the chart made from the data are   *)
(* left out.                                                                *)
generate_block_comparison(block_number) ==
    LET data_1 == get_block_data_from_logs(block_number, TRUE)
        data_2 == get_block_data_from_logs(block_number, FALSE)
    IN  IF data_1 = <<"exception">> \/ data_2 = <<"exception">> THEN <<"exception">>
        ELSE LET boundary_time ==
                     DisplayBoundary(Contents(log_file_1), block_number, data_1, data_2)
                 log_lines_1 ==
                     IF single_file
                     THEN extract_log_lines_for_block(Contents(log_file_1), block_number,
                                                      TRUE, boundary_time)
                     ELSE extract_log_lines_for_block(Contents(log_file_1), block_number,
                                                      TRUE, NoBoundary)
                 log_lines_2 ==
                     IF single_file
                     THEN extract_log_lines_for_block(Contents(log_file_1), block_number,
                                                      FALSE, boundary_time)
                     ELSE extract_log_lines_for_block(Contents(log_file_2), block_number,
                                                      TRUE, NoBoundary)
             IN  <<IF data_1[1] = "None" \/ data_2[1] = "None" THEN "error" ELSE "block_data",
                   data_1, data_2, log_lines_1, log_lines_2>>

GenerateBlockComparison ==
    /\ pc = "input"
    /\ \E block_number \in QueryNums :
           /\ op' = <<"generate_block_comparison", block_number>>
           /\ ret' = generate_block_comparison(block_number)
    /\ pc' = "done"
    /\ UNCHANGED <<files, comparison_handler, graph_handler, counters>>

NextBlockData == Correlate \/ GetBlockDataFromLogs \/ GenerateBlockComparison

SpecBlockData == InitBlockData /\ [][NextBlockData]_vars

-----------------------------------------------------------------------------
(* get_common_block_numbers applied to two cache fields.                   *)

CommonRuns ==
    {NotBuilt} \cup {Built(extract_block_metadata(f)) :
                        f \in ServerFiles \cup {ExampleFile1, ExampleFile2}}

InitCommon ==
    /\ log_file_1 = <<>>
    /\ log_file_2 = NoFile
    /\ samples = <<>>
    /\ single_file = FALSE
    /\ block_metadata_cache_1 \in CommonRuns
    /\ block_metadata_cache_2 \in CommonRuns
    /\ block_numbers_cache = NotBuilt
    /\ block_boundaries_cache = NotBuilt
    /\ scans = 0
    /\ served = 0
    /\ op = <<>>
    /\ ret = <<>>
    /\ pc = "input"

GetCommonBlockNumbers ==
    /\ pc = "input"
    /\ pc' = "done"
    /\ op' = <<"get_common_block_numbers">>
    /\ ret' = get_common_block_numbers(block_metadata_cache_1, block_metadata_cache_2)
    /\ UNCHANGED <<files, comparison_handler, graph_handler, counters>>

NextCommon == GetCommonBlockNumbers

SpecCommon == InitCommon /\ [][NextCommon]_vars

-----------------------------------------------------------------------------
(* proof-metrics.py: the time-series server.  As in the comparison server, *)
(* start_server constructs a new LogGraphHandler for every request, whose  *)
(* __init__ sets block_boundaries_cache to None.                           *)

SampleTimes == {0, 1, 3}
Counters == {0, 1, 2, 5}
QueryTimes == {0, 1, 2, 3, 4}

Sample(t, c) == [ts |-> t, proofs_processed |-> c]

SampleFiles ==
    UNION {[1..n -> {Sample(t, c) : t \in SampleTimes, c \in Counters}] :
              n \in 0..MaxSamples}

(* The counter sequence 5, 8, 10, 2, 6, 9 at evenly spaced timestamps.      *)
ExampleSamples == [i \in 1..6 |-> Sample(i - 1, <<5, 8, 10, 2, 6, 9>>[i])]
(* A log whose samples are not in timestamp order.                          *)
OutOfOrderSamples == <<Sample(0, 5), Sample(3, 0), Sample(1, 0), Sample(2, 0)>>

InitGraph ==
    /\ log_file_1 = <<>>
    /\ log_file_2 = NoFile
    /\ \/ samples \in SampleFiles
       \/ samples \in {ExampleSamples, OutOfOrderSamples}
    /\ NothingServed
    /\ pc = "serving"

find_block_for_timestamp(block_boundaries, timestamp) ==
    FindWindow(block_boundaries, 1, timestamp)

(* lines 55-103: a POST of /find_block; timestamp is what                   *)
(* extract_timestamp_from_log found in the posted line, <<>> for None.      *)
(* lines 105-108: the new handler has no cache, so the boundaries are       *)
(* calculated.                                                              *)
GraphPOST ==
    /\ pc = "serving"
    /\ served < MaxRequests
    /\ served' = served + 1
    /\ \E timestamp \in {<<>>} \cup {<<t>> : t \in QueryTimes} :
           /\ op' = <<"POST /find_block", timestamp>>
           /\ IF timestamp # <<>>
              THEN /\ block_boundaries_cache' = Built(calculate_block_boundaries(samples))
                   /\ scans' = scans + 1
                   /\ ret' = <<"success",
                               find_block_for_timestamp(block_boundaries_cache'[1],
                                                        timestamp[1])>>
              ELSE /\ block_boundaries_cache' = NotBuilt
                   /\ scans' = scans
                   /\ ret' = <<"error">>
    /\ UNCHANGED <<files, comparison_handler, samples, pc>>

(* lines 23-50, 349-372, 380-382: a GET of / with the query parameters      *)
(* block and timestamp (<<>> when absent); the reply carries the windows    *)
(* and the id of the current window.                                        *)
GraphGET ==
    /\ pc = "serving"
    /\ served < MaxRequests
    /\ served' = served + 1
    /\ scans' = scans + 1
    /\ block_boundaries_cache' = Built(calculate_block_boundaries(samples))
    /\ \E block_id \in {<<>>, <<0>>}, timestamp \in {<<>>} \cup {<<t>> : t \in QueryTimes} :
           /\ op' = <<"GET /", block_id, timestamp>>
           /\ ret' = IF samples = <<>> THEN <<"No data found", <<>>, <<>>>>
                     ELSE <<"page", block_boundaries_cache'[1],
                            IF block_id # <<>> THEN block_id
                            ELSE IF timestamp # <<>>
                            THEN find_block_for_timestamp(block_boundaries_cache'[1],
                                                          timestamp[1])
                            ELSE <<>>>>
    /\ UNCHANGED <<files, comparison_handler, samples, pc>>

NextGraph == GraphPOST \/ GraphGET

SpecGraph == InitGraph /\ [][NextGraph]_vars

-----------------------------------------------------------------------------
(* Properties of the comparison server.                                    *)

NoBlockNumberTwice(cache) ==
    cache # NotBuilt =>
        \A i, j \in 1..Len(cache[1]) :
            i # j => cache[1][i].val.block_number # cache[1][j].val.block_number

(* C4: in every Run built, by splitting one file or by correlating each of  *)
(* two files, no block number is carried by more than one BlockRecord.      *)
C4_NoBlockNumberTwiceInARun ==
    /\ NoBlockNumberTwice(block_metadata_cache_1)
    /\ NoBlockNumberTwice(block_metadata_cache_2)

(* C10: across the requests served by one process the cached artifacts are  *)
(* derived from the file at most once.                                      *)
C10_DerivedAtMostOnce == scans <= 1

-----------------------------------------------------------------------------
(* Properties of get_common_block_numbers.                                 *)

CommonApplied == pc = "done" /\ op = <<"get_common_block_numbers">>

SeqToSet(s) == {s[i] : i \in 1..Len(s)}

NumbersIn(cache) == {cache[1][i].val.block_number : i \in 1..Len(cache[1])}

(* C5: the result is the empty list when a run was not built; otherwise it  *)
(* holds exactly the block numbers present in both runs, each once, in      *)
(* ascending numeric order; runs {100, 101, 103} and {100, 103, 104} give   *)
(* ["100", "103"].                                                          *)
C5_CommonBlockNumbers ==
    CommonApplied =>
        LET c1 == block_metadata_cache_1
            c2 == block_metadata_cache_2
        IN  IF c1 = NotBuilt \/ c2 = NotBuilt THEN ret = <<>>
            ELSE /\ SeqToSet(ret) = NumbersIn(c1) \cap NumbersIn(c2)
                 /\ \A i, j \in 1..Len(ret) : i < j => ToInt(ret[i]) < ToInt(ret[j])
                 /\ ( /\ c1 = Built(extract_block_metadata(ExampleFile1))
                      /\ c2 = Built(extract_block_metadata(ExampleFile2)) )
                    => ret = <<<<1, 0, 0>>, <<1, 0, 3>>>>

(* Blocks 9 and 10 are common to two runs that both found 10 first.         *)
C5_Witness ==
    /\ CommonApplied
    /\ block_metadata_cache_1 # NotBuilt
    /\ block_metadata_cache_2 # NotBuilt
    /\ Len(block_metadata_cache_1[1]) = 2
    /\ Len(block_metadata_cache_2[1]) = 2
    /\ block_metadata_cache_1[1][1].val.block_number = <<1, 0>>
    /\ block_metadata_cache_2[1][1].val.block_number = <<1, 0>>
    /\ ret = <<<<9>>, <<1, 0>>>>

-----------------------------------------------------------------------------
(* Properties of the boundary reconstructor and of the window lookup.      *)

BoundariesBuilt == block_boundaries_cache # NotBuilt

(* The samples at which the counter is below half of the previous sample's  *)
(* value, or zero.                                                          *)
ResetIndices(smp) ==
    {i \in 2..Len(smp) : \/ 2 * smp[i].proofs_processed < smp[i - 1].proofs_processed
                         \/ smp[i].proofs_processed = 0}

(* C6: the k-th reset, at sample i, closes window k - 1, which runs from    *)
(* the sample of the previous reset (the first sample for the first window) *)
(* to sample i - 1; nothing else closes a window but the end of the file;   *)
(* a window's index is its list position; 5, 8, 10, 2, 6, 9 gives the two   *)
(* windows split between samples 2 and 3.                                   *)
C6_WindowsFollowResets ==
    BoundariesBuilt =>
        LET smp == samples
            w == block_boundaries_cache[1]
            R == ResetIndices(smp)
            Nth(k) == CHOOSE i \in R : Cardinality({j \in R : j <= i}) = k
            StartOf(k) == IF k = 1 THEN smp[1].ts ELSE smp[Nth(k - 1)].ts
        IN  /\ Len(w) \in {Cardinality(R), Cardinality(R) + 1}
            /\ \A k \in 1..Cardinality(R) :
                   w[k] = <<k - 1, StartOf(k), smp[Nth(k) - 1].ts>>
            /\ Len(w) = Cardinality(R) + 1 =>
                   /\ smp # <<>>
                   /\ w[Len(w)] = <<Cardinality(R), StartOf(Len(w)), smp[Len(smp)].ts>>
            /\ smp = ExampleSamples => w = <<<<0, 0, 2>>, <<1, 3, 5>>>>

(* The windows of 5, 8, 10, 2, 6, 9 have been calculated.                   *)
C6_Witness ==
    /\ BoundariesBuilt
    /\ samples = ExampleSamples
    /\ Len(block_boundaries_cache[1]) = 2

(* C7: for a non-empty sequence of samples the last window ends at the      *)
(* timestamp of the last sample, and the last sample lies in some window.   *)
C7_LastWindowEndsAtLastSample ==
    (BoundariesBuilt /\ samples # <<>>) =>
        LET w == block_boundaries_cache[1]
            last == samples[Len(samples)].ts
        IN  /\ w # <<>>
            /\ w[Len(w)][3] = last
            /\ \E k \in 1..Len(w) : w[k][2] <= last /\ last <= w[k][3]

FoundFor == served > 0 /\ op[1] = "POST /find_block" /\ op[2] # <<>>

Holding(w, t) == {k \in 1..Len(w) : w[k][2] <= t /\ t <= w[k][3]}

LowestHolding(w, t, result) ==
    IF Holding(w, t) = {} THEN result = <<>>
    ELSE \E k \in Holding(w, t) :
             /\ \A m \in Holding(w, t) : k <= m
             /\ result = <<k - 1>>

InGap(w, t) == \E k \in 1..(Len(w) - 1) : w[k][3] < t /\ t < w[k + 1][2]

InTimestampOrder(smp) == \A i, j \in 1..Len(smp) : i < j => smp[i].ts <= smp[j].ts

(* C9, as stated: the result is the index of the lowest-indexed window      *)
(* holding the timestamp, both ends included, and none when no window       *)
(* holds it; and it is none for every timestamp strictly between one        *)
(* window's end and the next window's start.                                *)
C9_LookupAsStated ==
    FoundFor =>
        /\ LowestHolding(block_boundaries_cache[1], op[2][1], ret[2])
        /\ InGap(block_boundaries_cache[1], op[2][1]) => ret[2] = <<>>

(* C9, amended: the result is the index of the lowest-indexed window        *)
(* holding the timestamp, both ends included, and none exactly when no      *)
(* window holds it; when the samples are in timestamp order it is none for  *)
(* every timestamp strictly between one window's end and the next window's  *)
(* start.                                                                   *)
C9_Lookup ==
    FoundFor =>
        /\ LowestHolding(block_boundaries_cache[1], op[2][1], ret[2])
        /\ (InTimestampOrder(samples) /\ InGap(block_boundaries_cache[1], op[2][1]))
           => ret[2] = <<>>

(* A timestamp between two windows of a log in timestamp order was looked   *)
(* up.                                                                      *)
C9_Witness ==
    /\ FoundFor
    /\ InTimestampOrder(samples)
    /\ InGap(block_boundaries_cache[1], op[2][1])
    /\ ret[2] = <<>>

-----------------------------------------------------------------------------
(* Properties of the fields of a BlockRecord and of the block data.        *)

BlockDataGot ==
    pc = "done" /\ op[1] = "get_block_data_from_logs" /\ ret[1] = "block_data"

InProofWindow(file, p, anchor) ==
    /\ file[p].kind = "ProofsProcessed"
    /\ 0 <= file[p].ts - anchor
    /\ file[p].ts - anchor <= ProofWindow

(* C11: a BlockRecord has a root_elapsed only from a StateRootCalculated    *)
(* line of its own block number and a total_time only from a                *)
(* ProofsProcessed line in its forward window; without such a line the      *)
(* field is absent, and the block data read off the log lines shows 'N/A'   *)
(* for a field no line of the right kind (and block) gave.                  *)
C11_UnmatchedFieldsAreAbsent ==
    /\ Correlated =>
           \A i \in 1..Len(ret) :
               LET r == ret[i].val
                   f == log_file_1
                   roots == LinesOfKind(f, "StateRootCalculated", r.block_number)
                   proofs == {p \in 1..Len(f) : InProofWindow(f, p, r.timestamp)}
               IN  /\ r.root_elapsed # None => r.root_elapsed \in roots
                   /\ r.total_time # None => r.total_time \in proofs
                   /\ roots = {} => r.root_elapsed = None
                   /\ proofs = {} => r.total_time = None
    /\ BlockDataGot =>
           LET d == ret[2]
               f == IF single_file \/ op[3] THEN log_file_1 ELSE Contents(log_file_2)
               roots == LinesOfKind(f, "StateRootCalculated", op[2])
               proofs == LinesOfKind(f, "ProofsProcessed", NoNumber)
           IN  /\ d.root_elapsed # NotAvailable => d.root_elapsed[1] \in roots
               /\ d.processing_time # NotAvailable => d.processing_time[1] \in proofs
               /\ roots = {} => d.root_elapsed = NotAvailable
               /\ proofs = {} => d.processing_time = NotAvailable

(* A record without root_elapsed and without total_time, from a file that   *)
(* holds a root line of another block and a proof line out of the window.   *)
C11_Witness ==
    /\ Correlated
    /\ log_file_1 = <<BlockAdded(<<9>>, 0), StateRootCalculated(<<1, 0>>, 0),
                      ProofsProcessed(11)>>
    /\ Len(ret) = 1
    /\ ret[1].val.root_elapsed = None
    /\ ret[1].val.total_time = None

-----------------------------------------------------------------------------
(* Properties of detect_single_or_dual_file.                               *)

Detected == pc = "serving"

RepeatedBlock(file) ==
    \E i, j \in 1..Len(file) :
        /\ i # j
        /\ file[i].kind = "BlockAdded"
        /\ file[j].kind = "BlockAdded"
        /\ file[i].number = file[j].number

(* C12: given one file, or the same file twice, single-file mode is         *)
(* declared exactly when some block number has two or more BlockAdded       *)
(* lines in the file; given two different files it is never declared.       *)
(* (The second path is left as given unless the mode is declared.)          *)
C12_DualRunIffRepeatedBlock ==
    Detected =>
        IF log_file_2 \in {NoFile, SameFile}
        THEN single_file <=> RepeatedBlock(log_file_1)
        ELSE ~single_file

-----------------------------------------------------------------------------
(* proof-metrics.py: parse_log.  A line of the time-series log that the    *)
(* 'Checking end condition' pattern matches carries a timestamp text (its  *)
(* instant in seconds and the number of digits after the decimal point,    *)
(* which the pattern's \.\d+ leaves free) and the three counters.          *)

MaxParseLines == 3
FractionDigits == {6, 9}

EndCondition(t, digits, pp, supr) ==
    [kind |-> "CheckingEndCondition", ts |-> t, fraction_digits |-> digits,
     proofs_processed |-> pp, state_update_proofs_requested |-> supr,
     prefetch_proofs_requested |-> pp + supr]

(* A line the pattern does not match.                                       *)
OtherLine == [kind |-> "Other", ts |-> 0, fraction_digits |-> 6,
              proofs_processed |-> 0, state_update_proofs_requested |-> 0,
              prefetch_proofs_requested |-> 0]

ParseFiles ==
    FilesOver({EndCondition(t, digits, pp, supr) :
                   t \in {0, 1}, digits \in FractionDigits, pp \in {0, 5}, supr \in {0, 1}}
              \cup {OtherLine},
              MaxParseLines)

(* line 725: datetime.strptime(timestamp_str, '%Y-%m-%dT%H:%M:%S.%fZ');     *)
(* %f takes one to six digits, and more digits raise ValueError.  The       *)
(* result is <<instant>>, or <<>> for ValueError.                           *)
MaxMicrosecondDigits == 6

StrptimeAnyFraction(line) == <<line.ts>>

Strptime(line) ==
    IF line.fraction_digits <= MaxMicrosecondDigits THEN <<line.ts>> ELSE <<>>

(* lines 719-739: the loop over the lines; a ValueError is caught and the   *)
(* line is left out of all four lists.                                      *)
RECURSIVE ParseLines(_, _, _)
ParseLines(file, i, lists) ==
    IF i > Len(file) THEN lists
    ELSE IF file[i].kind = "CheckingEndCondition" /\ Strptime(file[i]) # <<>>
    THEN ParseLines(file, i + 1,
             <<Append(lists[1], Strptime(file[i])[1]),
               Append(lists[2], file[i].proofs_processed),
               Append(lists[3], file[i].state_update_proofs_requested),
               Append(lists[4], file[i].prefetch_proofs_requested)>>)
    ELSE ParseLines(file, i + 1, lists)

(* lines 708-742: (timestamps, proofs_processed,                            *)
(* state_update_proofs_requested, prefetch_proofs_requested)                *)
parse_log(file) == ParseLines(file, 1, <<<<>>, <<>>, <<>>, <<>>>>)

InitParse ==
    /\ log_file_1 \in ParseFiles
    /\ log_file_2 = NoFile
    /\ samples = <<>>
    /\ NothingServed
    /\ pc = "input"

(* calculate_block_boundaries line 121: the parsed lists become the         *)
(* samples of the handler.                                                  *)
ParseLog ==
    /\ pc = "input"
    /\ pc' = "done"
    /\ op' = <<"parse_log">>
    /\ ret' = parse_log(log_file_1)
    /\ samples' = [k \in 1..Len(ret'[1]) |-> Sample(ret'[1][k], ret'[2][k])]
    /\ UNCHANGED <<files, comparison_handler, block_boundaries_cache, counters>>

NextParse == ParseLog

SpecParse == InitParse /\ [][NextParse]_vars

Parsed == pc = "done" /\ op = <<"parse_log">>

(* The lists hold, in file order, one element for each line of `lines`.     *)
OneSamplePerLine(file, lines, lists) ==
    LET Nth(k) == CHOOSE i \in lines : Cardinality({j \in lines : j <= i}) = k
    IN  /\ \A c \in 1..4 : Len(lists[c]) = Cardinality(lines)
        /\ \A k \in 1..Cardinality(lines) :
               /\ lists[1][k] = file[Nth(k)].ts
               /\ lists[2][k] = file[Nth(k)].proofs_processed
               /\ lists[3][k] = file[Nth(k)].state_update_proofs_requested
               /\ lists[4][k] = file[Nth(k)].prefetch_proofs_requested

MatchingLines(file) == {i \in 1..Len(file) : file[i].kind = "CheckingEndCondition"}

(* C13, as stated: parse_log yields, in file order, exactly one sample for  *)
(* every line the pattern matches and none for any other line, and the      *)
(* four lists have equal length.                                            *)
C13_OneSamplePerMatchingLine ==
    Parsed => OneSamplePerLine(log_file_1, MatchingLines(log_file_1), ret)

(* C13, amended: parse_log yields, in file order, exactly one sample for    *)
(* every line the pattern matches and whose timestamp strptime accepts      *)
(* (at most six digits after the decimal point), and none for any other     *)
(* line; the four lists have equal length.                                  *)
C13_OneSamplePerParsedLine ==
    Parsed =>
        OneSamplePerLine(log_file_1,
                         {i \in MatchingLines(log_file_1) :
                              log_file_1[i].fraction_digits <= MaxMicrosecondDigits},
                         ret)

(* A matching line, a line the pattern does not match and a matching line   *)
(* with nine fraction digits gave one sample.                               *)
C13_Witness ==
    /\ Parsed
    /\ Len(log_file_1) = 3
    /\ log_file_1[1] = OtherLine
    /\ log_file_1[2].kind = "CheckingEndCondition" /\ log_file_1[2].fraction_digits = 9
    /\ log_file_1[3].kind = "CheckingEndCondition" /\ log_file_1[3].fraction_digits = 6
    /\ Len(ret[1]) = 1

-----------------------------------------------------------------------------
(* proof-metrics.py: calculate_block_statistics, applied to the samples of *)
(* a window.  A rate is the fraction <<numerator, denominator>> with a     *)
(* positive denominator; durations are whole seconds.                      *)

ZeroRate == <<0, 1>>

(* lines 670-673 with the guard left out.                                   *)
ProofsRateUnguarded(proofs_processed, duration_seconds) ==
    <<proofs_processed[Len(proofs_processed)] - proofs_processed[1], duration_seconds>>

(* lines 670-673 *)
ProofsRate(proofs_processed, duration_seconds) ==
    IF duration_seconds > 0
    THEN <<proofs_processed[Len(proofs_processed)] - proofs_processed[1], duration_seconds>>
    ELSE ZeroRate

MillisecondsPerSecond == 1000

(* lines 656-678 *)
calculate_block_statistics(timestamps, proofs_processed) ==
    IF timestamps = <<>> \/ Len(timestamps) < 2
    THEN [duration_ms |-> 0, avg_proofs_processed |-> ZeroRate]
    ELSE LET duration_seconds == timestamps[Len(timestamps)] - timestamps[1]
         IN  [duration_ms |-> duration_seconds * MillisecondsPerSecond,
              avg_proofs_processed |-> ProofsRate(proofs_processed, duration_seconds)]

InitStatistics ==
    /\ log_file_1 = <<>>
    /\ log_file_2 = NoFile
    /\ samples \in SampleFiles
    /\ NothingServed
    /\ pc = "input"

(* lines 391-394: the statistics of the samples of a window.                *)
CalculateBlockStatistics ==
    /\ pc = "input"
    /\ pc' = "done"
    /\ op' = <<"calculate_block_statistics">>
    /\ ret' = calculate_block_statistics([i \in 1..Len(samples) |-> samples[i].ts],
                                         [i \in 1..Len(samples) |-> samples[i].proofs_processed])
    /\ UNCHANGED <<files, comparison_handler, graph_handler, counters>>

NextStatistics == CalculateBlockStatistics

SpecStatistics == InitStatistics /\ [][NextStatistics]_vars

StatisticsCalculated == pc = "done" /\ op = <<"calculate_block_statistics">>

(* C14: the rate is zero when the window has fewer than two samples or the  *)
(* time from its first to its last sample is not positive; otherwise the    *)
(* rate is (last counter - first counter) / elapsed seconds and             *)
(* duration_ms is the elapsed seconds times 1000.                           *)
C14_RateOfAWindow ==
    StatisticsCalculated =>
        LET n == Len(samples)
            elapsed == samples[n].ts - samples[1].ts
            rate == ret.avg_proofs_processed
        IN  IF n < 2 \/ elapsed <= 0
            THEN rate[1] = 0 /\ rate[2] > 0
            ELSE /\ rate[2] > 0
                 /\ rate[1] * elapsed
                        = (samples[n].proofs_processed - samples[1].proofs_processed) * rate[2]
                 /\ ret.duration_ms = elapsed * 1000

(* The counter went from 1 to 5 in 3 seconds.                               *)
C14_Witness ==
    /\ StatisticsCalculated
    /\ Len(samples) = 3
    /\ samples[1] = Sample(0, 1)
    /\ samples[3] = Sample(3, 5)
    /\ ret = [duration_ms |-> 3000, avg_proofs_processed |-> <<4, 3>>]

-----------------------------------------------------------------------------
(* block-metrics.py: extract_block_metadata called again on the same file. *)
(* Every call starts from dicts of its own (lines 995-996), whatever an    *)
(* earlier call built.                                                     *)

(* blocks_data carried over from the earlier call.                          *)
BlocksDataKept(earlier_blocks_data) == earlier_blocks_data

(* line 996: blocks_data = {}                                               *)
BlocksDataAtEntry(earlier_blocks_data) == <<>>

(* lines 990-1081, for a call made after an earlier call.                   *)
extract_block_metadata_again(file, earlier_blocks_data) ==
    LET blocks_data ==
            AddProofTimes(ProofTimes(file),
                AddRootTimes(file, 1,
                    CollectBlocks(file, 1, BlocksDataAtEntry(earlier_blocks_data))))
    IN  ByTimestamp(AllEntries(blocks_data, 1), 1, <<>>)

(* The second call; ret keeps the result of the first beside it.            *)
CorrelateAgain ==
    /\ Correlated
    /\ pc' = "again"
    /\ op' = <<"extract_block_metadata", "extract_block_metadata">>
    /\ ret' = <<ret, extract_block_metadata_again(log_file_1, BlocksData(log_file_1))>>
    /\ UNCHANGED <<files, comparison_handler, graph_handler, counters>>

NextAgain == Correlate \/ CorrelateAgain

SpecAgain == InitCorrelator /\ [][NextAgain]_vars

CorrelatedTwice == pc = "again"

-----------------------------------------------------------------------------
(* Properties of the attachment of root and proof events by the            *)
(* correlator.  A record is identified by its BlockAdded line (its          *)
(* block_hash), an event by its line.                                       *)

(* The BlockAdded line of the event's block number that is nearest to the   *)
(* event in time, the first in the file among the nearest.                  *)
NearestBlockAdded(file, event) ==
    LET anchors == LinesOfKind(file, "BlockAdded", file[event].number)
        Distance(b) == Abs(file[event].ts - file[b].ts)
    IN  {b \in anchors :
            \A c \in anchors : Distance(b) < Distance(c)
                               \/ (Distance(b) = Distance(c) /\ b <= c)}

(* C16: each StateRootCalculated event is attached to the BlockAdded record *)
(* of its block number nearest in time, however far, the first in the file  *)
(* among equally near ones; so a record carries the root_elapsed of the     *)
(* last event in the file attached to it, and none when no event of its     *)
(* block number has it as nearest; events of a block number without         *)
(* BlockAdded line reach no record.                                         *)
C16_RootEventGoesToNearestRecord ==
    Correlated =>
        \A i \in 1..Len(ret) :
            LET r == ret[i].val
                f == log_file_1
                attached == {e \in LinesOfKind(f, "StateRootCalculated", r.block_number) :
                                 NearestBlockAdded(f, e) = {r.block_hash}}
            IN  IF attached = {}
                THEN r.root_elapsed = None
                ELSE /\ r.root_elapsed \in attached
                     /\ \A e \in attached : e <= r.root_elapsed

(* A root event half-way between two BlockAdded lines of its block went to  *)
(* the one that is first in the file, the later in time.                    *)
C16_Witness ==
    /\ Correlated
    /\ log_file_1 = <<BlockAdded(<<9>>, 10), BlockAdded(<<9>>, 0),
                      StateRootCalculated(<<9>>, 5)>>
    /\ Len(ret) = 2
    /\ ret[1].val.block_hash = 1 /\ ret[1].val.root_elapsed = 3
    /\ ret[2].val.block_hash = 2 /\ ret[2].val.root_elapsed = None

(* C17: the total_time of a record is that of the earliest ProofsProcessed  *)
(* event strictly after the record's BlockAdded timestamp and at most 10    *)
(* seconds after it; an event at or before that timestamp, or more than 10  *)
(* seconds after it, is never attached, and without a qualifying event the  *)
(* record has no total_time.                                                *)
C17_EarliestProofStrictlyAfter ==
    Correlated =>
        \A i \in 1..Len(ret) :
            LET r == ret[i].val
                f == log_file_1
                qualifying == {p \in LinesOfKind(f, "ProofsProcessed", NoNumber) :
                                   /\ f[p].ts > r.timestamp
                                   /\ f[p].ts <= r.timestamp + ProofWindow}
            IN  IF qualifying = {}
                THEN r.total_time = None
                ELSE /\ r.total_time \in qualifying
                     /\ \A p \in qualifying : f[r.total_time].ts <= f[p].ts

(* The ProofsProcessed events 0 to 10 seconds after an anchor that no       *)
(* other such event precedes, in time or, at the same time, in the file.    *)
EarliestProofInWindow(file, anchor) ==
    LET window == {p \in 1..Len(file) : InProofWindow(file, p, anchor)}
    IN  {p \in window :
            \A q \in window : file[p].ts < file[q].ts
                              \/ (file[p].ts = file[q].ts /\ p <= q)}

(* C18: the total_time of a record is decided by its anchor timestamp and   *)
(* the ProofsProcessed events alone; two records whose forward windows      *)
(* have the same earliest event both carry that event's total_time.         *)
C18_ProofEventIsShared ==
    Correlated =>
        LET f == log_file_1
        IN  /\ \A i \in 1..Len(ret) :
                   LET earliest == EarliestProofInWindow(f, ret[i].val.timestamp)
                   IN  IF earliest = {} THEN ret[i].val.total_time = None
                       ELSE earliest = {ret[i].val.total_time}
            /\ \A i, j \in 1..Len(ret) :
                   LET e1 == EarliestProofInWindow(f, ret[i].val.timestamp)
                       e2 == EarliestProofInWindow(f, ret[j].val.timestamp)
                   IN  (e1 # {} /\ e1 = e2) =>
                           /\ ret[i].val.total_time = ret[j].val.total_time
                           /\ ret[i].val.total_time \in e1

(* Two records, of blocks 9 and 10 or both of block 9, carry the            *)
(* total_time of the one proof event of the file.                           *)
C18_Witness ==
    /\ Correlated
    /\ Len(log_file_1) = 3
    /\ log_file_1[1].kind = "BlockAdded" /\ log_file_1[1].ts = 0
    /\ log_file_1[2].kind = "BlockAdded" /\ log_file_1[2].ts = 5
    /\ log_file_1[3] = ProofsProcessed(10)
    /\ Len(ret) = 2
    /\ ret[1].val.total_time = 3
    /\ ret[2].val.total_time = 3

-----------------------------------------------------------------------------
(* C19: of the BlockRecords of one file, a block number with more than two  *)
(* records has the record of earliest timestamp in Run 1 only, the record   *)
(* of second-earliest timestamp in Run 2 only, and every later record in    *)
(* neither run.                                                             *)
C19_OnlyFirstTwoOccurrences ==
    Split =>
        LET all_metadata == extract_block_metadata(log_file_1)
            run1 == ret[1]
            run2 == ret[2]
        IN  \A n \in BlockNumbersOf(all_metadata) :
                LET occ == RecordsOf(all_metadata, n)
                    Earlier(r) == {x \in occ : x.timestamp < r.timestamp}
                IN  Cardinality(occ) > 2 =>
                        \A r \in occ :
                            /\ HasRecord(run1, r) <=> Cardinality(Earlier(r)) = 0
                            /\ HasRecord(run2, r) <=> Cardinality(Earlier(r)) = 1

(* Block 9 is added three times, the latest first in the file; the runs     *)
(* hold one record each.                                                    *)
C19_Witness ==
    /\ Split
    /\ log_file_1 = <<BlockAdded(<<9>>, 10), BlockAdded(<<9>>, 0), BlockAdded(<<9>>, 5)>>
    /\ Len(ret[1]) = 1 /\ ret[1][1].val.block_hash = 2
    /\ Len(ret[2]) = 1 /\ ret[2][1].val.block_hash = 3

-----------------------------------------------------------------------------
(* C20: a proof-summary line is in the result only if it lies 0 to 2        *)
(* seconds before the chosen BlockAdded line, a root-calculation line only  *)
(* if it is of the target block and within 5 seconds of the chosen          *)
(* BlockAdded line on either side; when some line qualifies for a slot the  *)
(* slot holds a qualifying line of earliest timestamp.                      *)
C20_SearchWindows ==
    (Selected /\ ret # <<>>) =>
        LET f == log_file_1
            chosen == f[ret[Len(ret)]].ts
            in_result == SeqToSet(ret)
            proofs == {p \in LinesOfKind(f, "ProofsProcessed", NoNumber) :
                           0 <= chosen - f[p].ts /\ chosen - f[p].ts <= 2}
            roots == {r \in LinesOfKind(f, "StateRootCalculated", op[2]) :
                          Abs(chosen - f[r].ts) <= 5}
            Slot(kind) == {i \in in_result : f[i].kind = kind}
            Filled(slot, qualifying) ==
                /\ slot \subseteq qualifying
                /\ qualifying # {} =>
                       \E i \in slot : \A q \in qualifying : f[i].ts <= f[q].ts
        IN  /\ Filled(Slot("ProofsProcessed"), proofs)
            /\ Filled(Slot("StateRootCalculated"), roots)

(* Of two proof-summary lines in the window the earlier one, second in the  *)
(* file, is returned.                                                       *)
C20_Witness ==
    /\ Selected
    /\ log_file_1 = <<ProofsProcessed(2), ProofsProcessed(0), BlockAdded(<<9>>, 2)>>
    /\ op[2] = <<9>>
    /\ ret = <<2, 3>>

-----------------------------------------------------------------------------
(* C21: given a boundary and a block with two or more BlockAdded lines, a   *)
(* run-1 request selects the earliest BlockAdded line strictly before the   *)
(* boundary and a run-2 request the earliest one at or after it; when the   *)
(* requested side holds no BlockAdded line the result is the empty list.    *)
C21_BoundaryPartitionsOccurrences ==
    (Selected /\ op[4] # NoBoundary) =>
        LET f == log_file_1
            anchors == LinesOfKind(f, "BlockAdded", op[2])
            side == {b \in anchors : (2 * f[b].ts < op[4][1]) = op[3]}
        IN  Cardinality(anchors) >= 2 =>
                IF side = {} THEN ret = <<>>
                ELSE /\ ret # <<>>
                     /\ ret[Len(ret)] \in side
                     /\ \A b \in side : f[ret[Len(ret)]].ts <= f[b].ts

(* A run-2 request with the boundary at 2 s selected the BlockAdded line    *)
(* stamped 2 s, not the later one.                                          *)
C21_Witness ==
    /\ Selected
    /\ op = <<"extract_log_lines_for_block", <<9>>, FALSE, <<4>>>>
    /\ log_file_1 = <<BlockAdded(<<9>>, 7), BlockAdded(<<9>>, 2), BlockAdded(<<9>>, 0)>>
    /\ ret = <<2>>

-----------------------------------------------------------------------------
(* C22: in single-file mode the boundary computed for block N is the        *)
(* midpoint between the first two BlockAdded occurrences of N itself (lines *)
(* of other numbers, also those that start with the digits of N, take no    *)
(* part), so the first occurrence lies strictly before it and the second at *)
(* or after it, and run 1 reports the first occurrence, run 2 the second.   *)
OwnOccurrences(file, block_number) ==
    SelectSeq([i \in 1..Len(file) |-> i],
              LAMBDA i : file[i].kind = "BlockAdded" /\ file[i].number = block_number)

C22_BoundaryFromOwnOccurrences ==
    (pc = "done" /\ op[1] = "get_block_data_from_logs" /\ single_file) =>
        LET f == Contents(log_file_1)
            occ == OwnOccurrences(f, op[2])
        IN  Len(occ) >= 2 =>
                LET boundary_time == BoundaryTime(single_file, f, op[2])
                IN  /\ boundary_time = <<f[occ[1]].ts + f[occ[2]].ts>>
                    /\ 2 * f[occ[1]].ts < boundary_time[1]
                    /\ 2 * f[occ[2]].ts >= boundary_time[1]
                    /\ Len(ret) = 2
                    /\ ret[2].elapsed_time = <<IF op[3] THEN occ[1] ELSE occ[2]>>

-----------------------------------------------------------------------------
(* C23: the ProofsProcessed line and the root line that                     *)
(* extract_log_lines_for_block selects for a BlockAdded line are the events *)
(* whose total_time and root_elapsed extract_block_metadata attaches to the *)
(* BlockRecord of that BlockAdded line.                                     *)
SelectedOfKind(file, logs, kind) ==
    {logs[k] : k \in {k \in 1..Len(logs) : file[logs[k]].kind = kind}}

AttachedEvent(value) == IF value = None THEN {} ELSE {value}

C23_SelectorAgreesWithCorrelator ==
    (Selected /\ ret # <<>>) =>
        LET f == log_file_1
            anchor == CHOOSE b \in SelectedOfKind(f, ret, "BlockAdded") : TRUE
            entry == CHOOSE e \in SeqToSet(AllEntries(BlocksData(f), 1)) :
                         e.elapsed_time = anchor
        IN  /\ SelectedOfKind(f, ret, "ProofsProcessed") = AttachedEvent(entry.total_time)
            /\ SelectedOfKind(f, ret, "StateRootCalculated") = AttachedEvent(entry.root_elapsed)

-----------------------------------------------------------------------------
(* proof-metrics.py: extract_block_metadata and                             *)
(* find_block_metadata_for_time_range (the metadata of a BlockWindow).      *)

(* A metadata dict of proof-metrics.py; a key the dict lacks is None, or    *)
(* NoNumber for block_number.  Values are the positions of the lines that   *)
(* gave them.                                                               *)
MetadataEntry(timestamp) ==
    [timestamp    |-> timestamp,
     total_time   |-> None,
     block_number |-> NoNumber,
     block_hash   |-> None,
     elapsed_time |-> None,
     root_elapsed |-> None]

EntryAt(block_metadata, timestamp) ==
    IF DictHas(block_metadata, timestamp) THEN DictGet(block_metadata, timestamp)
    ELSE MetadataEntry(timestamp)

(* lines 592-599: every proofs-processed line makes the entry of its        *)
(* timestamp anew.                                                          *)
RECURSIVE CollectProofsProcessed(_, _, _)
CollectProofsProcessed(file, i, block_metadata) ==
    IF i > Len(file) THEN block_metadata
    ELSE IF file[i].kind = "ProofsProcessed"
    THEN CollectProofsProcessed(file, i + 1,
             DictSet(block_metadata, file[i].ts,
                     [MetadataEntry(file[i].ts) EXCEPT !.total_time = i]))
    ELSE CollectProofsProcessed(file, i + 1, block_metadata)

(* lines 601-624: every block-added line updates or makes the entry of its  *)
(* timestamp, and block_timestamps keeps the last timestamp of a number.    *)
RECURSIVE CollectBlockInfo(_, _, _, _)
CollectBlockInfo(file, i, block_metadata, block_timestamps) ==
    IF i > Len(file) THEN <<block_metadata, block_timestamps>>
    ELSE IF file[i].kind = "BlockAdded"
    THEN CollectBlockInfo(file, i + 1,
             DictSet(block_metadata, file[i].ts,
                     [EntryAt(block_metadata, file[i].ts) EXCEPT
                         !.block_number = file[i].number,
                         !.block_hash = i,
                         !.elapsed_time = i]),
             DictSet(block_timestamps, file[i].number, file[i].ts))
    ELSE CollectBlockInfo(file, i + 1, block_metadata, block_timestamps)

(* lines 626-651: every root line updates or makes the entry of its own     *)
(* timestamp, then writes its root_elapsed into the entry that              *)
(* block_timestamps names for its block number.                             *)
RECURSIVE AddRootElapsed(_, _, _, _)
AddRootElapsed(file, i, block_metadata, block_timestamps) ==
    IF i > Len(file) THEN block_metadata
    ELSE IF file[i].kind = "StateRootCalculated"
    THEN LET own == DictSet(block_metadata, file[i].ts,
                            [EntryAt(block_metadata, file[i].ts) EXCEPT
                                !.root_elapsed = i,
                                !.block_number = file[i].number,
                                !.block_hash = i])
             updated ==
                 IF DictHas(block_timestamps, file[i].number)
                 THEN LET block_timestamp == DictGet(block_timestamps, file[i].number)
                      IN  DictSet(own, block_timestamp,
                                  [DictGet(own, block_timestamp) EXCEPT !.root_elapsed = i])
                 ELSE own
         IN  AddRootElapsed(file, i + 1, updated, block_timestamps)
    ELSE AddRootElapsed(file, i + 1, block_metadata, block_timestamps)

(* lines 575-654 of proof-metrics.py *)
proof_metrics_extract_block_metadata(file) ==
    LET collected == CollectBlockInfo(file, 1, CollectProofsProcessed(file, 1, <<>>), <<>>)
    IN  AddRootElapsed(file, 1, collected[1], collected[2])

(* block_metadata.items(): the (timestamp, metadata) pairs in dict order.   *)
Items(block_metadata) ==
    [j \in 1..Len(block_metadata) |->
        [k |-> block_metadata[j].key, metadata |-> block_metadata[j].val]]

(* min(entries, key=|timestamp - end_time|): the first of the least.        *)
RECURSIVE ClosestTo(_, _, _, _)
ClosestTo(entries, j, end_time, best) ==
    IF j > Len(entries) THEN best
    ELSE IF Abs(entries[j].k - end_time) < Abs(best.k - end_time)
    THEN ClosestTo(entries, j + 1, end_time, entries[j])
    ELSE ClosestTo(entries, j + 1, end_time, best)

(* lines 524, 543: an entry a block-added line wrote.                       *)
HasBlockInfo(metadata) ==
    metadata.block_number # NoNumber /\ metadata.elapsed_time # None

(* The last search with the window after end_time cut to five seconds.      *)
InWiderWindowCut(timestamp, start_time, end_time) ==
    start_time - 5 <= timestamp /\ timestamp <= end_time + 5

(* line 557: the window of the last search.                                 *)
InWiderWindow(timestamp, start_time, end_time) ==
    start_time - 5 <= timestamp /\ timestamp <= end_time + 10

(* lines 551-573: any entry near the time range, one with a block number    *)
(* first; <<>> for None.                                                    *)
AnyEntryNearby(block_metadata, start_time, end_time) ==
    LET all_entries ==
            SortByKey(SelectSeq(Items(block_metadata),
                          LAMBDA e : InWiderWindow(e.k, start_time, end_time)))
        with_number == SelectSeq(all_entries, LAMBDA e : e.metadata.block_number # NoNumber)
    IN  IF all_entries = <<>> THEN <<>>
        ELSE IF with_number # <<>> THEN <<with_number[1].metadata>>
        ELSE <<ClosestTo(all_entries, 2, end_time, all_entries[1]).metadata>>

(* lines 490-573: <<metadata>>, or <<>> for None.                           *)
find_block_metadata_for_time_range(block_metadata, start_time, end_time) ==
    LET proofs_processed_entries ==
            SortByKey(SelectSeq(Items(block_metadata),
                          LAMBDA e : /\ e.metadata.total_time # None
                                     /\ end_time - 1 <= e.k
                                     /\ e.k <= end_time + 5))
    IN  IF proofs_processed_entries = <<>>
        THEN AnyEntryNearby(block_metadata, start_time, end_time)
        ELSE LET closest_entry ==
                     ClosestTo(proofs_processed_entries, 2, end_time,
                               proofs_processed_entries[1])
                 block_entries ==
                     SortByKey(SelectSeq(Items(block_metadata),
                                   LAMBDA e : /\ HasBlockInfo(e.metadata)
                                              /\ closest_entry.k <= e.k
                                              /\ e.k <= closest_entry.k + 5))
                 later_entries ==
                     SelectSeq(Items(block_metadata),
                         LAMBDA e : /\ HasBlockInfo(e.metadata)
                                    /\ end_time <= e.k
                                    /\ e.k <= end_time + 10)
             IN  IF block_entries # <<>> THEN <<block_entries[1].metadata>>
                 ELSE IF closest_entry.metadata.block_number # NoNumber
                 THEN <<closest_entry.metadata>>
                 ELSE IF later_entries # <<>> THEN <<later_entries[1].metadata>>
                 ELSE AnyEntryNearby(block_metadata, start_time, end_time)

(* lines 380-407 of generate_plot: the statistics of window block_idx, with *)
(* the keys of the metadata found for it added (block_stats.update); the    *)
(* result is <<block_info, block_stats>>.                                   *)
BlockStats(smp, file, block_idx) ==
    LET block_boundaries == calculate_block_boundaries(smp)
        block_metadata == proof_metrics_extract_block_metadata(file)
        block_start == block_boundaries[block_idx + 1][2]
        block_end == block_boundaries[block_idx + 1][3]
        filtered == SelectSeq(smp, LAMBDA x : block_start <= x.ts /\ x.ts <= block_end)
        block_stats ==
            calculate_block_statistics(
                [i \in 1..Len(filtered) |-> filtered[i].ts],
                [i \in 1..Len(filtered) |-> filtered[i].proofs_processed])
        block_info ==
            IF block_metadata # <<>>
            THEN find_block_metadata_for_time_range(block_metadata, block_start, block_end)
            ELSE <<>>
    IN  <<block_info,
          IF block_info # <<>> THEN block_info[1] @@ block_stats ELSE block_stats>>

MaxMetadataLines == 3
MetadataTimes == {2, 3, 9, 15, 20, 21}
MetadataFiles == FilesOver(LinesOver({<<9>>}, MetadataTimes), MaxMetadataLines)

(* Sample lines giving window 0 the range 8..10, 8..8 or 10..10.            *)
WindowSamples ==
    {<<Sample(8, 1), Sample(10, 2)>>,
     <<Sample(8, 5), Sample(10, 0)>>,
     <<Sample(10, 5), Sample(12, 0)>>}

(* The graph server's file: its sample lines and its block lines.           *)
InitPlot ==
    /\ log_file_1 \in MetadataFiles
    /\ log_file_2 = NoFile
    /\ samples \in WindowSamples
    /\ NothingServed
    /\ pc = "input"

(* generate_plot(block_id='0') of a new handler: lines 351-352 fill the     *)
(* cache, lines 380-407 give the block statistics.                          *)
GeneratePlot ==
    /\ pc = "input"
    /\ pc' = "done"
    /\ op' = <<"generate_plot", 0>>
    /\ block_boundaries_cache' = Built(calculate_block_boundaries(samples))
    /\ ret' = BlockStats(samples, log_file_1, 0)
    /\ UNCHANGED <<files, comparison_handler, samples, counters>>

NextPlot == GeneratePlot

SpecPlot == InitPlot /\ [][NextPlot]_vars

(* C24: for a window with start <= end, no metadata is found exactly when   *)
(* no metadata entry has a timestamp within [start - 5 s, end + 10 s]; an   *)
(* entry that is found has its timestamp within that interval; and the      *)
(* statistics carry no block identity when nothing is found.                *)
PlotGenerated == pc = "done" /\ op[1] = "generate_plot"

IdentityFields == {"block_number", "block_hash"}

C24_MetadataFoundIffNearby ==
    PlotGenerated =>
        LET window == block_boundaries_cache[1][1]
            block_metadata == proof_metrics_extract_block_metadata(log_file_1)
            nearby == {i \in 1..Len(block_metadata) :
                          /\ window[2] - 5 <= block_metadata[i].key
                          /\ block_metadata[i].key <= window[3] + 10}
        IN  window[2] <= window[3] =>
                /\ (ret[1] = <<>>) <=> (nearby = {})
                /\ ret[1] # <<>> =>
                       /\ window[2] - 5 <= ret[1][1].timestamp
                       /\ ret[1][1].timestamp <= window[3] + 10
                /\ ret[1] = <<>> => IdentityFields \cap DOMAIN ret[2] = {}

(* The window 8..10 with a block-added line at 20 s, the far end of the     *)
(* interval, and a proofs-processed line outside it: the block is found.    *)
C24_Witness ==
    /\ PlotGenerated
    /\ samples = <<Sample(8, 1), Sample(10, 2)>>
    /\ log_file_1 = <<ProofsProcessed(2), BlockAdded(<<9>>, 20)>>
    /\ ret[1] # <<>>
    /\ ret[1][1].elapsed_time = 2
    /\ ret[2].block_number = <<9>>
    /\ ret[2].duration_ms = 2000

-----------------------------------------------------------------------------
(* C25: enriching a BlockRecord with a root_elapsed or with a proof time    *)
(* sets that one field of the existing record and leaves its block_number,  *)
(* block_hash, elapsed_time and anchor timestamp as they were, and the      *)
(* records of the returned map are the enriched records.                    *)
C25_EnrichmentSetsOneField ==
    Correlated =>
        LET f == log_file_1
            collected == AllEntries(CollectBlocks(f, 1, <<>>), 1)
            rooted == AllEntries(AddRootTimes(f, 1, CollectBlocks(f, 1, <<>>)), 1)
            enriched == AllEntries(BlocksData(f), 1)
        IN  /\ Len(rooted) = Len(collected)
            /\ Len(enriched) = Len(collected)
            /\ \A k \in 1..Len(collected) :
                   /\ rooted[k] =
                          [collected[k] EXCEPT !.root_elapsed = rooted[k].root_elapsed]
                   /\ enriched[k] =
                          [rooted[k] EXCEPT !.total_time = enriched[k].total_time]
            /\ \A i \in 1..Len(ret) :
                   /\ ret[i].val \in SeqToSet(enriched)
                   /\ ret[i].key = Key(ret[i].val.timestamp)

(* A record enriched with both a root_elapsed and a proof time.             *)
C25_Witness ==
    /\ Correlated
    /\ log_file_1 = <<BlockAdded(<<9>>, 0), StateRootCalculated(<<9>>, 5), ProofsProcessed(5)>>
    /\ ret = <<[key |-> Key(0),
                val |-> [timestamp |-> 0, block_hash |-> 1, elapsed_time |-> 1,
                         block_number |-> <<9>>, root_elapsed |-> 2, total_time |-> 3]]>>

-----------------------------------------------------------------------------
(* C26: when the comparison server was started with one log file, every     *)
(* overview request completes with a result built from two runs of that     *)
(* file, also when the file holds no block number twice: the request ends   *)
(* with the (possibly empty) comparison built and not in an error caused by *)
(* the missing second file.                                                 *)
C26_SingleFileRequestCompletes ==
    (pc = "serving" /\ log_file_2 = NoFile /\ op = <<"GET /">>) =>
        /\ ret = <<"page">>
        /\ block_metadata_cache_1 # NotBuilt
        /\ block_metadata_cache_2 # NotBuilt
        /\ block_numbers_cache # NotBuilt

-----------------------------------------------------------------------------
(* C27: when the sample timestamps are strictly increasing, every window    *)
(* has start <= end, each window's end is strictly before the next window's *)
(* start, and every sample other than possibly the last lies in exactly one *)
(* window.                                                                  *)
StrictlyIncreasing(smp) == \A i, j \in 1..Len(smp) : i < j => smp[i].ts < smp[j].ts

C27_WindowsOrderedAndDisjoint ==
    (BoundariesBuilt /\ StrictlyIncreasing(samples)) =>
        LET w == block_boundaries_cache[1]
        IN  /\ \A k \in 1..Len(w) : w[k][2] <= w[k][3]
            /\ \A k \in 1..(Len(w) - 1) : w[k][3] < w[k + 1][2]
            /\ \A i \in 1..(Len(samples) - 1) :
                   Cardinality(Holding(w, samples[i].ts)) = 1

(* Two resets in three samples: two one-sample windows, and the last        *)
(* sample in no window.                                                     *)
C27_Witness ==
    /\ BoundariesBuilt
    /\ samples = <<Sample(0, 5), Sample(1, 0), Sample(3, 0)>>
    /\ block_boundaries_cache[1] = <<<<0, 0, 0>>, <<1, 1, 1>>>>

-----------------------------------------------------------------------------
(* C28: after the split Run 1 and Run 2 carry the same set of block         *)
(* numbers, every block number that has a BlockRecord in the file, so the   *)
(* common block numbers of the two runs are all the block numbers of the    *)
(* file, each once.                                                         *)
C28_RunsCarryEveryBlockNumber ==
    Split =>
        LET all_numbers == BlockNumbersOf(extract_block_metadata(log_file_1))
            common == get_common_block_numbers(Built(ret[1]), Built(ret[2]))
        IN  /\ BlockNumbersOf(ret[1]) = all_numbers
            /\ BlockNumbersOf(ret[2]) = all_numbers
            /\ SeqToSet(common) = all_numbers
            /\ Len(common) = Cardinality(all_numbers)

(* Block 10 added once and block 9 twice: both runs carry 9 and 10.         *)
C28_Witness ==
    /\ Split
    /\ log_file_1 = <<BlockAdded(<<1, 0>>, 0), BlockAdded(<<9>>, 5), BlockAdded(<<9>>, 10)>>
    /\ BlockNumbersOf(ret[1]) = {<<9>>, <<1, 0>>}
    /\ BlockNumbersOf(ret[2]) = {<<9>>, <<1, 0>>}
    /\ get_common_block_numbers(Built(ret[1]), Built(ret[2])) = <<<<9>>, <<1, 0>>>>

-----------------------------------------------------------------------------
(* C29: in single-file mode, for a block with two occurrences, the lines    *)
(* shown for run 1 and for run 2 each contain the BlockAdded line from      *)
(* which that run's timing data was taken: the boundary recomputed for the  *)
(* lines never selects another occurrence, or none.  (The boundary is       *)
(* recomputed when both runs have data.)                                    *)
BlockCompared == pc = "done" /\ op[1] = "generate_block_comparison" /\ Len(ret) = 5

ShownWithData(data, log_lines) ==
    data[1] = "block_data" =>
        \E k \in 1..Len(log_lines) : <<log_lines[k]>> = data[2].elapsed_time

C29_ShownLinesMatchData ==
    (BlockCompared /\ single_file /\ ret[1] = "block_data") =>
        (Len(OwnOccurrences(Contents(log_file_1), op[2])) = 2 =>
             /\ ShownWithData(ret[2], ret[4])
             /\ ShownWithData(ret[3], ret[5]))

-----------------------------------------------------------------------------
(* C30: for every file, the root_elapsed that extract_block_metadata of     *)
(* proof-metrics.py attaches to a BlockAdded-anchored record equals the     *)
(* root_elapsed that extract_block_metadata of block-metrics.py attaches to *)
(* the record with the same anchor timestamp, also when a block number      *)
(* occurs more than once in the file.                                       *)
C30_CorrelatorsAgreeOnRoots ==
    Correlated =>
        LET graph_metadata == proof_metrics_extract_block_metadata(log_file_1)
        IN  \A i \in 1..Len(graph_metadata) :
                graph_metadata[i].val.elapsed_time # None =>
                    /\ DictHas(ret, Key(graph_metadata[i].key))
                    /\ DictGet(ret, Key(graph_metadata[i].key)).root_elapsed
                           = graph_metadata[i].val.root_elapsed

=============================================================================
